---- MODULE Spec2Model ----
(***************************************************************************)
(* Model of the Pauli propagation engine of quantum-error-analyzer:        *)
(* Phase and PauliString (src/physics/pauli.rs), Circuit and Gate          *)
(* (src/physics/circuit.rs), the conjugation rules                         *)
(* (src/physics/propagation.rs) and the stepping Simulator                 *)
(* (src/physics/simulator.rs).                                             *)
(*                                                                         *)
(* A u64 bit field is modelled as the set of the positions of its 1 bits:  *)
(* AND is intersection, XOR is symmetric difference, count_ones is the     *)
(* cardinality, and bit q is membership of q.                              *)
(***************************************************************************)
EXTENDS Integers, Sequences, FiniteSets, TLC

VARIABLES
    pc,             \* "build": the Circuit is being built; "sim": a Simulator owns it; "pauli": PauliString algebra
    circuit,        \* Circuit { num_qubits, gates }
    add_result,     \* what the last add_gate call returned: "Ok", "Err" ("none" before any call)
    error_pattern,  \* Simulator.error_pattern
    timeline,       \* Simulator.timeline
    current_time,   \* Simulator.current_time
    call,           \* the last call made, whether it changed the object it was made on, and the arguments of an inject_error
    ret,            \* what that call returned: "true", "false", or "unit"
    panicked,       \* a panic!() was reached
    injections,     \* number of inject_error calls made so far
    scenario,       \* history of the current run of step_forward calls from time 0 followed by step_backward calls
    lhs,            \* PauliString algebra: left operand (self)
    rhs,            \* PauliString algebra: right operand (other)
    product,        \* PauliString algebra: outcome of the last operation on lhs and rhs
    program,        \* conjugation rules: the gates to apply to lhs, in order
    trace,          \* conjugation rules: the pattern left by each gate of program applied so far
    phases,         \* Phase arithmetic: the three operands <<a, b, c>>
    phase_out,      \* Phase arithmetic: outcome of the last operation on phases
    third,          \* PauliString algebra: third operand of a product of three
    text,           \* from_str: the arguments, a string of characters and num_qubits
    parsed,         \* from_str: what the call returned
    document,       \* circuit io: the document handed to an importer
    imported        \* circuit io: what the importer returned

vars == <<pc, circuit, add_result, error_pattern, timeline, current_time, call, ret,
          panicked, injections, scenario, lhs, rhs, product, program, trace,
          phases, phase_out, third, text, parsed, document, imported>>

simVars == <<error_pattern, timeline, current_time>>
pauliVars == <<lhs, rhs, product>>
ruleVars == <<program, trace>>
phaseVars == <<phases, phase_out>>
otherVars == <<third, text, parsed, document, imported>>

-----------------------------------------------------------------------------
(* Bounds of the model *)

\* Circuit::new is called with num_qubits in 0..MaxQubits
MaxQubits == 2
\* add_gate is accepted at most MaxDepth times
MaxDepth == 2
\* inject_error is called at most MaxInject times on one Simulator
MaxInject == 2
\* the operands of the PauliString algebra have 0..MaxPauliQubits qubits
MaxPauliQubits == 2
\* a conjugation rule is applied up to MaxRepeat times in a row
MaxRepeat == 4
\* from_str is called on strings of 0..MaxStrLen characters
MaxStrLen == 3
\* the three operands of a product of three have 0..MaxTripleQubits qubits
MaxTripleQubits == 1
\* a QASM document handed to import_qasm has 0..MaxLines lines
MaxLines == 3

-----------------------------------------------------------------------------
(* Phase: pauli.rs *)

WordBits == 64

PlusOne == 0
PlusI == 1
MinusOne == 2
MinusI == 3

Phases == {PlusOne, PlusI, MinusOne, MinusI}

\* value & 3
Phase_from_u8(value) == value % 4

Phase_to_u8(p) == p

\* multiply that combines the two encodings with a bitwise XOR instead of a sum
Phase_multiply_Xor(self, other) ==
    Phase_from_u8(((Phase_to_u8(self) + Phase_to_u8(other)) % 2)
                  + 2 * (((Phase_to_u8(self) \div 2) + (Phase_to_u8(other) \div 2)) % 2))

Phase_multiply(self, other) == Phase_from_u8((Phase_to_u8(self) + Phase_to_u8(other)) % 4)

Phase_negate(self) == Phase_from_u8((Phase_to_u8(self) + 2) % 4)

-----------------------------------------------------------------------------
(* bit fields *)

AllBits == 0 .. (WordBits - 1)

\* 1 << qubit on a u64
Shl1(qubit) == IF qubit < WordBits THEN {qubit} ELSE {}

BitXor(a, b) == (a \ b) \cup (b \ a)

BitAnd(a, b) == a \cap b

BitNot(a) == AllBits \ a

count_ones(a) == Cardinality(a)

\* bits.set(index, value)
BitSet(bits, index, value) == IF value THEN bits \cup {index} ELSE bits \ {index}

\* Rust's % on i32: the remainder has the sign of the dividend
RustRem(a, b) == IF a >= 0 THEN a % b ELSE 0 - ((0 - a) % b)

-----------------------------------------------------------------------------
(* PauliString: pauli.rs *)

SinglePauli == {"I", "X", "Y", "Z"}

PauliString_new(num_qubits) ==
    [x_bits |-> {}, z_bits |-> {}, phase |-> PlusOne, num_qubits |-> num_qubits]

\* PauliString::new panics above 64 qubits
PauliString_new_panics(num_qubits) == num_qubits > WordBits

get_pauli(self, qubit) ==
    LET x == qubit \in self.x_bits
        z == qubit \in self.z_bits
    IN  IF ~x /\ ~z THEN "I"
        ELSE IF x /\ ~z THEN "X"
        ELSE IF ~x /\ z THEN "Z"
        ELSE "Y"

\* set_pauli without the bounds check
set_pauli_panics_Never(self, qubit) == FALSE

set_pauli_panics(self, qubit) == qubit >= self.num_qubits

\* set_pauli that sets the new component's bits without clearing the old ones
set_pauli_NoClear(self, qubit, pauli) ==
    [self EXCEPT
        !.x_bits = IF pauli \in {"X", "Y"} THEN self.x_bits \cup Shl1(qubit) ELSE self.x_bits,
        !.z_bits = IF pauli \in {"Z", "Y"} THEN self.z_bits \cup Shl1(qubit) ELSE self.z_bits]

set_pauli(self, qubit, pauli) ==
    LET mask == BitNot(Shl1(qubit))
        x0 == BitAnd(self.x_bits, mask)
        z0 == BitAnd(self.z_bits, mask)
    IN  [self EXCEPT
            !.x_bits = IF pauli \in {"X", "Y"} THEN x0 \cup Shl1(qubit) ELSE x0,
            !.z_bits = IF pauli \in {"Z", "Y"} THEN z0 \cup Shl1(qubit) ELSE z0]

\* multiply that does not compare the qubit counts
multiply_panics_Never(self, other) == FALSE

multiply_panics(self, other) == self.num_qubits # other.num_qubits

\* a Result: Ok(value) or Err(_)
Ok(value) == [result |-> "Ok", value |-> value]
Err == [result |-> "Err"]

\* from_str: the characters that are not white space are counted against
\* num_qubits, then read in order; character i sets bit i of x_bits and z_bits
from_str(s, num_qubits) ==
    LET chars == SelectSeq(s, LAMBDA c : c # " ")
    IN  IF Len(chars) # num_qubits THEN Err
        ELSE IF \E i \in 1 .. Len(chars) :
                    \/ i - 1 >= WordBits
                    \/ chars[i] \notin {"I", "i", "X", "x", "Y", "y", "Z", "z"}
             THEN Err
        ELSE Ok([x_bits |-> UNION {Shl1(i - 1) : i \in {j \in 1 .. Len(chars) :
                                                        chars[j] \in {"X", "x", "Y", "y"}}},
                 z_bits |-> UNION {Shl1(i - 1) : i \in {j \in 1 .. Len(chars) :
                                                        chars[j] \in {"Z", "z", "Y", "y"}}},
                 phase |-> PlusOne,
                 num_qubits |-> num_qubits])

\* multiply with the two contributions of the symplectic exponent exchanged
multiply_ExchangedContrib(self, other) ==
    LET phase0 == Phase_multiply(self.phase, other.phase)
        positive_contrib == count_ones(BitAnd(self.z_bits, other.x_bits))
        negative_contrib == count_ones(BitAnd(self.x_bits, other.z_bits))
        phase_exponent == RustRem(RustRem(positive_contrib - negative_contrib, 4) + 4, 4)
    IN  [x_bits |-> BitXor(self.x_bits, other.x_bits),
         z_bits |-> BitXor(self.z_bits, other.z_bits),
         phase |-> IF phase_exponent # 0
                   THEN Phase_multiply(phase0, Phase_from_u8(phase_exponent))
                   ELSE phase0,
         num_qubits |-> self.num_qubits]

multiply(self, other) ==
    LET new_x_bits == BitXor(self.x_bits, other.x_bits)
        new_z_bits == BitXor(self.z_bits, other.z_bits)
        phase0 == Phase_multiply(self.phase, other.phase)
        x1_and_z2 == BitAnd(self.x_bits, other.z_bits)
        z1_and_x2 == BitAnd(self.z_bits, other.x_bits)
        positive_contrib == count_ones(x1_and_z2)
        negative_contrib == count_ones(z1_and_x2)
        phase_exponent == RustRem(RustRem(positive_contrib - negative_contrib, 4) + 4, 4)
        phase == IF phase_exponent # 0
                 THEN Phase_multiply(phase0, Phase_from_u8(phase_exponent))
                 ELSE phase0
    IN  [x_bits |-> new_x_bits, z_bits |-> new_z_bits, phase |-> phase,
         num_qubits |-> self.num_qubits]

\* commutes_with that counts only the x1 AND z2 half of the symplectic product
commutes_with_HalfProduct(self, other) ==
    IF self.num_qubits # other.num_qubits
    THEN FALSE
    ELSE count_ones(BitAnd(self.x_bits, other.z_bits)) % 2 = 0

commutes_with(self, other) ==
    IF self.num_qubits # other.num_qubits
    THEN FALSE
    ELSE LET symplectic_product ==
                 BitXor(BitAnd(self.x_bits, other.z_bits), BitAnd(self.z_bits, other.x_bits))
         IN  count_ones(symplectic_product) % 2 = 0

-----------------------------------------------------------------------------
(* Gate and Circuit: circuit.rs *)

SingleGate == {"X", "Y", "Z", "H", "S", "Sdg", "I"}

Single(qubit, gate) == [tag |-> "Single", qubit |-> qubit, gate |-> gate]
CNOT(control, target) == [tag |-> "CNOT", control |-> control, target |-> target]
CZ(control, target) == [tag |-> "CZ", control |-> control, target |-> target]
SWAP(qubit1, qubit2) == [tag |-> "SWAP", qubit1 |-> qubit1, qubit2 |-> qubit2]

Gate_qubits(gate) ==
    IF gate.tag = "Single" THEN <<gate.qubit>>
    ELSE IF gate.tag \in {"CNOT", "CZ"} THEN <<gate.control, gate.target>>
    ELSE <<gate.qubit1, gate.qubit2>>

Circuit_new(num_qubits) == [num_qubits |-> num_qubits, gates |-> <<>>]

\* add_gate that validates only the first qubit index of the gate
add_gate_ChecksFirstQubit(self, gate) ==
    IF Gate_qubits(gate)[1] >= self.num_qubits
    THEN [result |-> "Err", circuit |-> self]
    ELSE [result |-> "Ok", circuit |-> [self EXCEPT !.gates = Append(self.gates, gate)]]

\* the result of add_gate and the circuit it leaves
add_gate(self, gate) ==
    IF \E i \in DOMAIN Gate_qubits(gate) : Gate_qubits(gate)[i] >= self.num_qubits
    THEN [result |-> "Err", circuit |-> self]
    ELSE [result |-> "Ok", circuit |-> [self EXCEPT !.gates = Append(self.gates, gate)]]

depth(self) == Len(self.gates)

-----------------------------------------------------------------------------
(* Circuit io: json.rs and qasm.rs.  A JSON document is the value its text   *)
(* denotes, or malformed.  A QASM document is the sequence of its lines: a   *)
(* line that is skipped, a qreg declaration, or a statement made of a gate   *)
(* name and operand tokens; an operand token is "q[i]" or a bare index.      *)

JsonDocument(num_qubits, gates) ==
    [format |-> "json", malformed |-> FALSE, num_qubits |-> num_qubits, gates |-> gates]
JsonMalformed == [format |-> "json", malformed |-> TRUE]

\* serde_json::from_str into the derived Deserialize of Circuit
import_json(json) ==
    IF json.malformed
    THEN Err
    ELSE Ok([num_qubits |-> json.num_qubits, gates |-> json.gates])

QSkip == [kind |-> "skip"]
QReg(size) == [kind |-> "qreg", size |-> size]
QGate(name, operands) == [kind |-> "gate", name |-> name, operands |-> operands]
Q(index) == [form |-> "q[i]", index |-> index]
Bare(index) == [form |-> "bare", index |-> index]

\* the statement export_qasm writes for a gate other than I
QasmStatement(gate) ==
    IF gate.tag = "Single"
    THEN QGate(CASE gate.gate = "H" -> "h"
                 [] gate.gate = "S" -> "s"
                 [] gate.gate = "Sdg" -> "sdg"
                 [] gate.gate = "X" -> "x"
                 [] gate.gate = "Y" -> "y"
                 [] gate.gate = "Z" -> "z"
                 [] OTHER -> "id",
               <<Q(gate.qubit)>>)
    ELSE IF gate.tag = "CNOT" THEN QGate("cx", <<Q(gate.control), Q(gate.target)>>)
    ELSE IF gate.tag = "CZ" THEN QGate("cz", <<Q(gate.control), Q(gate.target)>>)
    ELSE QGate("swap", <<Q(gate.qubit1), Q(gate.qubit2)>>)

\* export_qasm that writes an id statement for an I gate
export_qasm_WritesId(c) ==
    <<QSkip, QSkip, QReg(c.num_qubits), QSkip>>
        \o [i \in 1 .. Len(c.gates) |-> QasmStatement(c.gates[i])]

export_qasm(c) ==
    LET written == SelectSeq(c.gates, LAMBDA g : ~(g.tag = "Single" /\ g.gate = "I"))
    IN  <<QSkip, QSkip, QReg(c.num_qubits), QSkip>>
            \o [i \in 1 .. Len(written) |-> QasmStatement(written[i])]

\* qubit_map is the set of the indices i for which "q[i]" is a key
parse_qubit_index(qubit_str, qubit_map) ==
    IF qubit_str.form = "q[i]" /\ qubit_str.index \in qubit_map THEN Ok(qubit_str.index)
    ELSE IF qubit_str.form = "bare" THEN Ok(qubit_str.index)
    ELSE Err

\* the state of import_qasm before its first line
QasmStart ==
    [circuit |-> Circuit_new(0), num_qubits |-> 0, qubit_map |-> {}, failed |-> FALSE]

\* one iteration of the loop of import_qasm over the lines
import_qasm_line(st, line) ==
    IF line.kind = "skip" THEN st
    ELSE IF line.kind = "qreg"
    THEN [st EXCEPT !.num_qubits = line.size,
                    !.circuit = Circuit_new(line.size),
                    !.qubit_map = st.qubit_map \cup (0 .. (line.size - 1))]
    ELSE LET single == line.name \in {"h", "x", "y", "z", "s", "sdg"}
             two == line.name \in {"cx", "cz", "swap"}
             parsed_ops == [i \in 1 .. Len(line.operands) |->
                               parse_qubit_index(line.operands[i], st.qubit_map)]
             gate == IF single
                     THEN Single(parsed_ops[1].value,
                                 CASE line.name = "h" -> "H"
                                   [] line.name = "x" -> "X"
                                   [] line.name = "y" -> "Y"
                                   [] line.name = "z" -> "Z"
                                   [] line.name = "s" -> "S"
                                   [] OTHER -> "Sdg")
                     ELSE IF line.name = "cx"
                     THEN CNOT(parsed_ops[1].value, parsed_ops[2].value)
                     ELSE IF line.name = "cz"
                     THEN CZ(parsed_ops[1].value, parsed_ops[2].value)
                     ELSE SWAP(parsed_ops[1].value, parsed_ops[2].value)
         IN  IF ~single /\ ~two THEN [st EXCEPT !.failed = TRUE]
             ELSE IF Len(line.operands) # (IF single THEN 1 ELSE 2)
             THEN [st EXCEPT !.failed = TRUE]
             ELSE IF \E i \in 1 .. Len(parsed_ops) : parsed_ops[i].result = "Err"
             THEN [st EXCEPT !.failed = TRUE]
             ELSE LET r == add_gate(st.circuit, gate)
                  IN  IF r.result = "Err"
                      THEN [st EXCEPT !.failed = TRUE]
                      ELSE [st EXCEPT !.circuit = r.circuit]

RECURSIVE import_qasm_lines(_, _)
import_qasm_lines(st, lines) ==
    IF lines = <<>> \/ st.failed
    THEN st
    ELSE import_qasm_lines(import_qasm_line(st, Head(lines)), Tail(lines))

import_qasm(qasm) ==
    LET end == import_qasm_lines(QasmStart, qasm)
    IN  IF end.failed THEN Err
        ELSE IF end.num_qubits = 0 THEN Err
        ELSE Ok(end.circuit)

-----------------------------------------------------------------------------
(* Conjugation rules: propagation.rs.  Each rule yields the pattern it      *)
(* leaves and whether it panicked (a panic leaves the pattern untouched).   *)

Done(pauli) == [panic |-> FALSE, pauli |-> pauli]
Panic(pauli) == [panic |-> TRUE, pauli |-> pauli]

\* a sign flip that leaves the phase as it is
TimesMinusOne_Keeps(pauli) == pauli

TimesMinusOne(pauli) == [pauli EXCEPT !.phase = Phase_multiply(pauli.phase, MinusOne)]

\* the S phase update as the closed form phase * i^(1 - 2 * z_old)
S_phase_ClosedForm(phase, z_bit) ==
    Phase_multiply(phase, IF z_bit THEN MinusI ELSE PlusI)

\* the phase S leaves on a component with x = 1, from the running phase and the
\* z bit before the toggle
S_phase(phase, z_bit) ==
    IF ~z_bit
    THEN Phase_multiply(phase, PlusI)
    ELSE IF phase = MinusI
         THEN PlusOne
         ELSE Phase_multiply(phase, MinusOne)

\* the Sdg phase update that multiplies by -1 where the code leaves the phase
Sdg_phase_Negates(phase, z_bit) ==
    IF ~z_bit
    THEN Phase_multiply(phase, MinusI)
    ELSE IF phase = PlusI
         THEN PlusOne
         ELSE Phase_multiply(phase, MinusOne)

\* the phase Sdg leaves on a component with x = 1, from the running phase and
\* the z bit before the toggle
Sdg_phase(phase, z_bit) ==
    IF ~z_bit
    THEN Phase_multiply(phase, MinusI)
    ELSE IF phase = PlusI
         THEN PlusOne
         ELSE phase

apply_single_gate(pauli, qubit, gate) ==
    LET x_bit == qubit \in pauli.x_bits
        z_bit == qubit \in pauli.z_bits
    IN
    IF qubit >= pauli.num_qubits THEN Panic(pauli)
    ELSE IF gate = "I" THEN Done(pauli)
    ELSE IF gate = "X" THEN
        Done(IF z_bit THEN TimesMinusOne(pauli) ELSE pauli)
    ELSE IF gate = "Y" THEN
        Done(IF x_bit /\ ~z_bit THEN TimesMinusOne(pauli)
             ELSE IF ~x_bit /\ z_bit THEN TimesMinusOne(pauli)
             ELSE pauli)
    ELSE IF gate = "Z" THEN
        Done(IF x_bit THEN TimesMinusOne(pauli) ELSE pauli)
    ELSE IF gate = "H" THEN
        LET swapped == [pauli EXCEPT !.x_bits = BitSet(pauli.x_bits, qubit, z_bit),
                                     !.z_bits = BitSet(pauli.z_bits, qubit, x_bit)]
        IN  Done(IF x_bit /\ z_bit THEN TimesMinusOne(swapped) ELSE swapped)
    ELSE IF gate = "S" THEN
        IF x_bit
        THEN LET toggled == [pauli EXCEPT !.z_bits = BitSet(pauli.z_bits, qubit, ~z_bit)]
             IN  Done([toggled EXCEPT !.phase = S_phase(toggled.phase, z_bit)])
        ELSE Done(pauli)
    ELSE \* Sdg
        IF x_bit
        THEN LET toggled == [pauli EXCEPT !.z_bits = BitSet(pauli.z_bits, qubit, ~z_bit)]
             IN  Done([toggled EXCEPT !.phase = Sdg_phase(toggled.phase, z_bit)])
        ELSE Done(pauli)

\* CNOT that never touches the phase
apply_CNOT_NoPhase(pauli, control, target) ==
    LET x_c == control \in pauli.x_bits
        z_t == target \in pauli.z_bits
        new_x == IF x_c THEN BitSet(pauli.x_bits, target, TRUE) ELSE pauli.x_bits
        new_z == IF z_t
                 THEN BitSet(pauli.z_bits, control, ~(control \in pauli.z_bits))
                 ELSE pauli.z_bits
    IN  IF control >= pauli.num_qubits \/ target >= pauli.num_qubits THEN Panic(pauli)
        ELSE IF control = target THEN Panic(pauli)
        ELSE Done([pauli EXCEPT !.x_bits = new_x, !.z_bits = new_z])

\* CNOT whose target x bit becomes x_t XOR x_c
apply_CNOT_Xors(pauli, control, target) ==
    LET x_c == control \in pauli.x_bits
        z_t == target \in pauli.z_bits
        new_x == IF x_c
                 THEN BitSet(pauli.x_bits, target, ~(target \in pauli.x_bits))
                 ELSE pauli.x_bits
        new_z == IF z_t
                 THEN BitSet(pauli.z_bits, control, ~(control \in pauli.z_bits))
                 ELSE pauli.z_bits
        moved == [pauli EXCEPT !.x_bits = new_x, !.z_bits = new_z]
    IN  IF control >= pauli.num_qubits \/ target >= pauli.num_qubits THEN Panic(pauli)
        ELSE IF control = target THEN Panic(pauli)
        ELSE Done(IF x_c /\ z_t THEN TimesMinusOne(moved) ELSE moved)

apply_CNOT(pauli, control, target) ==
    LET x_c == control \in pauli.x_bits
        z_t == target \in pauli.z_bits
        new_x == IF x_c THEN BitSet(pauli.x_bits, target, TRUE) ELSE pauli.x_bits
        new_z == IF z_t
                 THEN BitSet(pauli.z_bits, control, ~(control \in pauli.z_bits))
                 ELSE pauli.z_bits
        moved == [pauli EXCEPT !.x_bits = new_x, !.z_bits = new_z]
    IN  IF control >= pauli.num_qubits \/ target >= pauli.num_qubits THEN Panic(pauli)
        ELSE IF control = target THEN Panic(pauli)
        ELSE Done(IF x_c /\ z_t THEN TimesMinusOne(moved) ELSE moved)

\* CZ that spreads Z from the control's X to the target only
apply_CZ_OneWay(pauli, control, target) ==
    LET x_c == control \in pauli.x_bits
        x_t == target \in pauli.x_bits
        z1 == IF x_c
              THEN BitSet(pauli.z_bits, target, ~(target \in pauli.z_bits))
              ELSE pauli.z_bits
        moved == [pauli EXCEPT !.z_bits = z1]
    IN  IF control >= pauli.num_qubits \/ target >= pauli.num_qubits THEN Panic(pauli)
        ELSE IF control = target THEN Panic(pauli)
        ELSE Done(IF x_c /\ x_t THEN TimesMinusOne(moved) ELSE moved)

apply_CZ(pauli, control, target) ==
    LET x_c == control \in pauli.x_bits
        x_t == target \in pauli.x_bits
        z1 == IF x_c
              THEN BitSet(pauli.z_bits, target, ~(target \in pauli.z_bits))
              ELSE pauli.z_bits
        z2 == IF x_t THEN BitSet(z1, control, ~(control \in z1)) ELSE z1
        moved == [pauli EXCEPT !.z_bits = z2]
    IN  IF control >= pauli.num_qubits \/ target >= pauli.num_qubits THEN Panic(pauli)
        ELSE IF control = target THEN Panic(pauli)
        ELSE Done(IF x_c /\ x_t THEN TimesMinusOne(moved) ELSE moved)

\* SWAP that writes the component of qubit2 to qubit1 and leaves qubit2
apply_SWAP_CopiesFirst(pauli, qubit1, qubit2) ==
    LET x2 == qubit2 \in pauli.x_bits
        z2 == qubit2 \in pauli.z_bits
        new_x == BitSet(pauli.x_bits, qubit1, x2)
        new_z == BitSet(pauli.z_bits, qubit1, z2)
    IN  IF qubit1 >= pauli.num_qubits \/ qubit2 >= pauli.num_qubits THEN Panic(pauli)
        ELSE IF qubit1 = qubit2 THEN Done(pauli)
        ELSE Done([pauli EXCEPT !.x_bits = new_x, !.z_bits = new_z])

apply_SWAP(pauli, qubit1, qubit2) ==
    LET x1 == qubit1 \in pauli.x_bits
        z1 == qubit1 \in pauli.z_bits
        x2 == qubit2 \in pauli.x_bits
        z2 == qubit2 \in pauli.z_bits
        new_x == BitSet(BitSet(pauli.x_bits, qubit1, x2), qubit2, x1)
        new_z == BitSet(BitSet(pauli.z_bits, qubit1, z2), qubit2, z1)
    IN  IF qubit1 >= pauli.num_qubits \/ qubit2 >= pauli.num_qubits THEN Panic(pauli)
        ELSE IF qubit1 = qubit2 THEN Done(pauli)
        ELSE Done([pauli EXCEPT !.x_bits = new_x, !.z_bits = new_z])

apply_two_gate(pauli, gate) ==
    IF gate.tag = "CNOT" THEN apply_CNOT(pauli, gate.control, gate.target)
    ELSE IF gate.tag = "CZ" THEN apply_CZ(pauli, gate.control, gate.target)
    ELSE apply_SWAP(pauli, gate.qubit1, gate.qubit2)

apply_gate(pauli, gate) ==
    IF gate.tag = "Single"
    THEN apply_single_gate(pauli, gate.qubit, gate.gate)
    ELSE apply_two_gate(pauli, gate)

-----------------------------------------------------------------------------
(* Simulator: simulator.rs.  A Simulator value is the record of its fields; *)
(* every operation yields the Simulator it leaves, what it returned and     *)
(* whether it panicked.                                                     *)

None == <<>>
Some(v) == <<v>>

Snapshot(time, pattern, gate_applied) ==
    [time |-> time, error_pattern |-> pattern, gate_applied |-> gate_applied]

Outcome(sim, returned, panic) == [sim |-> sim, ret |-> returned, panic |-> panic]

Simulator_new(c) ==
    LET pattern == PauliString_new(c.num_qubits)
    IN  [error_pattern |-> pattern,
         circuit |-> c,
         timeline |-> <<Snapshot(0, pattern, None)>>,
         current_time |-> 0]

\* inject_error that writes the new pattern into the first Snapshot
inject_error_RewritesFirst(self, qubit, pauli) ==
    IF set_pauli_panics(self.error_pattern, qubit)
    THEN Outcome(self, "unit", TRUE)
    ELSE LET pattern == set_pauli(self.error_pattern, qubit, pauli)
         IN  Outcome([self EXCEPT
                        !.error_pattern = pattern,
                        !.timeline = IF Len(self.timeline) > 0
                                     THEN [self.timeline EXCEPT ![1].error_pattern = pattern]
                                     ELSE self.timeline],
                     "unit", FALSE)

inject_error(self, qubit, pauli) ==
    IF set_pauli_panics(self.error_pattern, qubit)
    THEN Outcome(self, "unit", TRUE)
    ELSE LET pattern == set_pauli(self.error_pattern, qubit, pauli)
             n == Len(self.timeline)
         IN  Outcome([self EXCEPT
                        !.error_pattern = pattern,
                        !.timeline = IF n > 0
                                     THEN [self.timeline EXCEPT ![n].error_pattern = pattern]
                                     ELSE self.timeline],
                     "unit", FALSE)

\* step_forward that records the index of the next gate
step_forward_RecordsNextGate(self) ==
    IF self.current_time >= Len(self.circuit.gates)
    THEN Outcome(self, "false", FALSE)
    ELSE LET gate == self.circuit.gates[self.current_time + 1]
             applied == apply_gate(self.error_pattern, gate)
             time == self.current_time + 1
         IN  IF applied.panic
             THEN Outcome(self, "unit", TRUE)
             ELSE Outcome([self EXCEPT
                             !.error_pattern = applied.pauli,
                             !.current_time = time,
                             !.timeline = Append(self.timeline,
                                                 Snapshot(time, applied.pauli, Some(time)))],
                          "true", FALSE)

step_forward(self) ==
    IF self.current_time >= Len(self.circuit.gates)
    THEN Outcome(self, "false", FALSE)
    ELSE LET gate == self.circuit.gates[self.current_time + 1]
             applied == apply_gate(self.error_pattern, gate)
             time == self.current_time + 1
         IN  IF applied.panic
             THEN Outcome(self, "unit", TRUE)
             ELSE Outcome([self EXCEPT
                             !.error_pattern = applied.pauli,
                             !.current_time = time,
                             !.timeline = Append(self.timeline,
                                                 Snapshot(time, applied.pauli, Some(time - 1)))],
                          "true", FALSE)

\* step_backward that decrements the cursor and restores the pattern but keeps
\* the last Snapshot
step_backward_KeepsSnapshot(self) ==
    IF self.current_time = 0
    THEN Outcome(self, "false", FALSE)
    ELSE LET popped == SubSeq(self.timeline, 1, Len(self.timeline) - 1)
         IN  Outcome([self EXCEPT
                        !.current_time = self.current_time - 1,
                        !.error_pattern = popped[Len(popped)].error_pattern],
                     "true", FALSE)

\* step_backward that pops and decrements but leaves the live pattern as it is
step_backward_NoRestore(self) ==
    IF self.current_time = 0
    THEN Outcome(self, "false", FALSE)
    ELSE Outcome([self EXCEPT
                    !.timeline = SubSeq(self.timeline, 1, Len(self.timeline) - 1),
                    !.current_time = self.current_time - 1],
                 "true", FALSE)

\* step_backward that restores the pattern of the Snapshot it discards
step_backward_RestoresPopped(self) ==
    IF self.current_time = 0
    THEN Outcome(self, "false", FALSE)
    ELSE Outcome([self EXCEPT
                    !.timeline = SubSeq(self.timeline, 1, Len(self.timeline) - 1),
                    !.current_time = self.current_time - 1,
                    !.error_pattern = self.timeline[Len(self.timeline)].error_pattern],
                 "true", FALSE)

step_backward(self) ==
    IF self.current_time = 0
    THEN Outcome(self, "false", FALSE)
    ELSE LET popped == SubSeq(self.timeline, 1, Len(self.timeline) - 1)
         IN  Outcome([self EXCEPT
                        !.timeline = popped,
                        !.current_time = self.current_time - 1,
                        !.error_pattern = IF Len(popped) > 0
                                          THEN popped[Len(popped)].error_pattern
                                          ELSE self.error_pattern],
                     "true", FALSE)

\* reset that pushes the initial Snapshot without clearing the timeline
reset_KeepsTimeline(self) ==
    LET pattern == PauliString_new(self.circuit.num_qubits)
    IN  Outcome([self EXCEPT
                   !.current_time = 0,
                   !.error_pattern = pattern,
                   !.timeline = Append(self.timeline, Snapshot(0, pattern, None))],
                "unit", FALSE)

reset(self) ==
    LET pattern == PauliString_new(self.circuit.num_qubits)
    IN  Outcome([self EXCEPT
                   !.current_time = 0,
                   !.error_pattern = pattern,
                   !.timeline = <<Snapshot(0, pattern, None)>>],
                "unit", FALSE)

\* while self.step_forward() {}
RECURSIVE run(_)
run(self) ==
    LET stepped == step_forward(self)
    IN  IF stepped.panic THEN Outcome(stepped.sim, "unit", TRUE)
        ELSE IF stepped.ret = "true" THEN run(stepped.sim)
        ELSE Outcome(stepped.sim, "unit", FALSE)

-----------------------------------------------------------------------------
(* Inputs *)

\* gates offered to add_gate: a single-qubit gate that moves bits and phase
\* (S), a CNOT, a CNOT and a CZ whose control is their target, and one gate of
\* each shape with an operand out of range for every circuit of the model
\* (only operand, second operand, first operand)
GateInputs ==
    {Single(0, "S"), Single(MaxQubits, "X"),
     CNOT(0, 1), CNOT(0, 0), CNOT(0, MaxQubits), CZ(1, 1), SWAP(MaxQubits, 0)}

\* arguments offered to inject_error: every component on every qubit a circuit
\* of the model can have, and one qubit index that is out of range for all
InjectInputs ==
    {<<q, p>> : q \in 0 .. (MaxQubits - 1), p \in SinglePauli} \cup {<<MaxQubits, "X">>}

\* every PauliString of n qubits whose bits lie below n
PauliStrings(n) ==
    [x_bits : SUBSET (0 .. (n - 1)), z_bits : SUBSET (0 .. (n - 1)),
     phase : Phases, num_qubits : {n}]

-----------------------------------------------------------------------------
(* History of a run of step_forward calls begun at time 0 and the          *)
(* step_backward calls that follow it                                      *)

NoScenario ==
    [active |-> FALSE, start |-> PauliString_new(0), forward |-> 0, backward |-> 0,
     moved |-> FALSE]

ScenarioAfter(name, before, out) ==
    IF name = "step_forward" /\ out.ret = "true"
    THEN IF before.current_time = 0
         THEN [active |-> TRUE, start |-> before.error_pattern, forward |-> 1,
               backward |-> 0, moved |-> out.sim.error_pattern # before.error_pattern]
         ELSE IF scenario.active /\ scenario.backward = 0
         THEN [scenario EXCEPT !.forward = @ + 1,
                               !.moved = @ \/ out.sim.error_pattern # before.error_pattern]
         ELSE NoScenario
    ELSE IF name = "step_backward" /\ out.ret = "true" /\ scenario.active
    THEN [scenario EXCEPT !.backward = @ + 1]
    ELSE NoScenario

-----------------------------------------------------------------------------
(* The program: a Circuit is built with add_gate, a Simulator takes it,    *)
(* and the Simulator's operations are called in any order.  A panic ends   *)
(* the run.                                                                *)

Sim ==
    [error_pattern |-> error_pattern, circuit |-> circuit, timeline |-> timeline,
     current_time |-> current_time]

NoCall == [name |-> "none", changed |-> FALSE, args |-> <<>>]

NoProduct == [name |-> "none"]

NoPhaseOut == [name |-> "none"]

NoText == [s |-> <<>>, num_qubits |-> 0]

NoParsed == [result |-> "none"]

NoDocument == [format |-> "none"]

NoImported == [result |-> "none"]

Init ==
    /\ pc = "build"
    /\ circuit \in {Circuit_new(n) : n \in 0 .. MaxQubits}
    /\ add_result = "none"
    /\ error_pattern = PauliString_new(0)
    /\ timeline = <<>>
    /\ current_time = 0
    /\ call = NoCall
    /\ ret = "unit"
    /\ panicked = FALSE
    /\ injections = 0
    /\ scenario = NoScenario
    /\ lhs = PauliString_new(0)
    /\ rhs = PauliString_new(0)
    /\ product = NoProduct
    /\ program = <<>>
    /\ trace = <<>>
    /\ phases = <<PlusOne, PlusOne, PlusOne>>
    /\ phase_out = NoPhaseOut
    /\ third = PauliString_new(0)
    /\ text = NoText
    /\ parsed = NoParsed
    /\ document = NoDocument
    /\ imported = NoImported

AddGate(gate) ==
    /\ pc = "build"
    /\ depth(circuit) < MaxDepth
    /\ LET r == add_gate(circuit, gate)
       IN  /\ circuit' = r.circuit
           /\ add_result' = r.result
           /\ call' = [name |-> "add_gate", changed |-> r.circuit # circuit, args |-> <<>>]
    /\ UNCHANGED <<pc, simVars, ret, panicked, injections, scenario, pauliVars, ruleVars, phaseVars, otherVars>>

SimulatorNew ==
    /\ pc = "build"
    /\ IF PauliString_new_panics(circuit.num_qubits)
       THEN /\ panicked' = TRUE
            /\ UNCHANGED simVars
       ELSE LET sim == Simulator_new(circuit)
            IN  /\ error_pattern' = sim.error_pattern
                /\ timeline' = sim.timeline
                /\ current_time' = sim.current_time
                /\ panicked' = FALSE
    /\ pc' = "sim"
    /\ call' = [name |-> "new", changed |-> TRUE, args |-> <<>>]
    /\ ret' = "unit"
    /\ UNCHANGED <<circuit, add_result, injections, scenario, pauliVars, ruleVars, phaseVars, otherVars>>

\* the Simulator call named name with arguments args, whose outcome is out
Called(name, args, out) ==
    /\ error_pattern' = out.sim.error_pattern
    /\ timeline' = out.sim.timeline
    /\ current_time' = out.sim.current_time
    /\ call' = [name |-> name, changed |-> out.sim # Sim, args |-> args]
    /\ ret' = out.ret
    /\ panicked' = out.panic
    /\ scenario' = ScenarioAfter(name, Sim, out)
    /\ UNCHANGED <<pc, circuit, add_result, pauliVars, ruleVars, phaseVars, otherVars>>

InjectError(qubit, pauli) ==
    /\ pc = "sim" /\ ~panicked
    /\ injections < MaxInject
    /\ injections' = injections + 1
    /\ Called("inject_error", <<qubit, pauli>>, inject_error(Sim, qubit, pauli))

StepForward ==
    /\ pc = "sim" /\ ~panicked
    /\ Called("step_forward", <<>>, step_forward(Sim))
    /\ UNCHANGED injections

StepBackward ==
    /\ pc = "sim" /\ ~panicked
    /\ Called("step_backward", <<>>, step_backward(Sim))
    /\ UNCHANGED injections

Reset ==
    /\ pc = "sim" /\ ~panicked
    /\ Called("reset", <<>>, reset(Sim))
    /\ UNCHANGED injections

Run ==
    /\ pc = "sim" /\ ~panicked
    /\ Called("run", <<>>, run(Sim))
    /\ UNCHANGED injections

Next ==
    \/ \E gate \in GateInputs : AddGate(gate)
    \/ SimulatorNew
    \/ \E in \in InjectInputs : InjectError(in[1], in[2])
    \/ StepForward
    \/ StepBackward
    \/ Reset
    \/ Run

Spec == Init /\ [][Next]_vars

-----------------------------------------------------------------------------
(* PauliString algebra: two operands are drawn and an operation is applied *)

PauliInit ==
    /\ pc = "pauli"
    /\ circuit = Circuit_new(0)
    /\ add_result = "none"
    /\ error_pattern = PauliString_new(0)
    /\ timeline = <<>>
    /\ current_time = 0
    /\ call = NoCall
    /\ ret = "unit"
    /\ panicked = FALSE
    /\ injections = 0
    /\ scenario = NoScenario
    /\ lhs \in UNION {PauliStrings(n) : n \in 0 .. MaxPauliQubits}
    /\ rhs \in UNION {PauliStrings(n) : n \in 0 .. MaxPauliQubits}
    /\ product = NoProduct
    /\ program = <<>>
    /\ trace = <<>>
    /\ phases = <<PlusOne, PlusOne, PlusOne>>
    /\ phase_out = NoPhaseOut
    /\ third = PauliString_new(0)
    /\ text = NoText
    /\ parsed = NoParsed
    /\ document = NoDocument
    /\ imported = NoImported

Multiply ==
    /\ pc = "pauli"
    /\ product.name = "none"
    /\ product' = IF multiply_panics(lhs, rhs)
                  THEN [name |-> "multiply", panic |-> TRUE]
                  ELSE [name |-> "multiply", panic |-> FALSE, value |-> multiply(lhs, rhs)]
    /\ UNCHANGED <<pc, circuit, add_result, simVars, call, ret, panicked, injections,
                   scenario, lhs, rhs, ruleVars, phaseVars, otherVars>>

\* self.commutes_with(other) and other.commutes_with(self)
CommutesWith ==
    /\ pc = "pauli"
    /\ product.name = "none"
    /\ product' = [name |-> "commutes_with", panic |-> FALSE,
                   value |-> commutes_with(lhs, rhs),
                   reverse |-> commutes_with(rhs, lhs)]
    /\ UNCHANGED <<pc, circuit, add_result, simVars, call, ret, panicked, injections,
                   scenario, lhs, rhs, ruleVars, phaseVars, otherVars>>

PauliNext ==
    \/ Multiply
    \/ CommutesWith

PauliSpec == PauliInit /\ [][PauliNext]_vars

-----------------------------------------------------------------------------
(* Products of three: three operands of one size are drawn and multiplied   *)
(* in both groupings                                                        *)

TripleInit ==
    /\ pc = "triple"
    /\ circuit = Circuit_new(0)
    /\ add_result = "none"
    /\ error_pattern = PauliString_new(0)
    /\ timeline = <<>>
    /\ current_time = 0
    /\ call = NoCall
    /\ ret = "unit"
    /\ panicked = FALSE
    /\ injections = 0
    /\ scenario = NoScenario
    /\ \E n \in 0 .. MaxTripleQubits :
           /\ lhs \in PauliStrings(n)
           /\ rhs \in PauliStrings(n)
           /\ third \in PauliStrings(n)
    /\ product = NoProduct
    /\ program = <<>>
    /\ trace = <<>>
    /\ phases = <<PlusOne, PlusOne, PlusOne>>
    /\ phase_out = NoPhaseOut
    /\ text = NoText
    /\ parsed = NoParsed
    /\ document = NoDocument
    /\ imported = NoImported

\* lhs.multiply(&rhs).multiply(&third) and lhs.multiply(&rhs.multiply(&third))
MultiplyThree ==
    /\ pc = "triple"
    /\ product.name = "none"
    /\ product' = [name |-> "multiply_three",
                   left |-> multiply(multiply(lhs, rhs), third),
                   right |-> multiply(lhs, multiply(rhs, third))]
    /\ UNCHANGED <<pc, circuit, add_result, simVars, call, ret, panicked, injections,
                   scenario, lhs, rhs, ruleVars, phaseVars, otherVars>>

TripleNext == MultiplyThree

TripleSpec == TripleInit /\ [][TripleNext]_vars

-----------------------------------------------------------------------------
(* from_str: a string and a qubit count are drawn and parsed *)

\* the characters of the strings handed to from_str: the four components, a
\* lower-case one, white space and a character that is none of them
StrChars == {"I", "X", "Y", "Z", "y", " ", "Q"}

FromStrInit ==
    /\ pc = "from_str"
    /\ circuit = Circuit_new(0)
    /\ add_result = "none"
    /\ error_pattern = PauliString_new(0)
    /\ timeline = <<>>
    /\ current_time = 0
    /\ call = NoCall
    /\ ret = "unit"
    /\ panicked = FALSE
    /\ injections = 0
    /\ scenario = NoScenario
    /\ lhs = PauliString_new(0)
    /\ rhs = PauliString_new(0)
    /\ product = NoProduct
    /\ program = <<>>
    /\ trace = <<>>
    /\ phases = <<PlusOne, PlusOne, PlusOne>>
    /\ phase_out = NoPhaseOut
    /\ third = PauliString_new(0)
    /\ text \in [s : UNION {[1 .. k -> StrChars] : k \in 0 .. MaxStrLen},
                  num_qubits : 0 .. MaxPauliQubits]
    /\ parsed = NoParsed
    /\ document = NoDocument
    /\ imported = NoImported

FromStr ==
    /\ pc = "from_str"
    /\ parsed.result = "none"
    /\ parsed' = from_str(text.s, text.num_qubits)
    /\ UNCHANGED <<pc, circuit, add_result, simVars, call, ret, panicked, injections,
                   scenario, pauliVars, ruleVars, phaseVars, third, text, document,
                   imported>>

-----------------------------------------------------------------------------
(* Every producer of PauliStrings: the Simulator, multiply and from_str *)

PatternInit ==
    \/ Init
    \/ PauliInit
    \/ FromStrInit

PatternNext ==
    \/ Next
    \/ PauliNext
    \/ FromStr

PatternSpec == PatternInit /\ [][PatternNext]_vars

-----------------------------------------------------------------------------
(* Circuit io.  Either a circuit is built through add_gate, exported to     *)
(* QASM and imported again, or a document is drawn and handed to the        *)
(* importer of its format.                                                   *)

\* gates offered to add_gate before an export: every gate export_qasm tells
\* apart, and one whose qubit is out of range for every circuit of the model
IoGateInputs ==
    {Single(0, "I"), Single(0, "H"), Single(0, "Sdg"), Single(MaxQubits - 1, "Y"),
     CNOT(0, 1), CZ(1, 0), SWAP(0, 1), Single(MaxQubits, "X")}

\* gates a JSON document can name, in range or not
JsonGates ==
    {Single(0, "X"), Single(MaxQubits - 1, "I"), Single(MaxQubits, "H"),
     CNOT(0, 1), CNOT(0, MaxQubits), SWAP(MaxQubits, 0)}

JsonDocuments ==
    {JsonMalformed} \cup
    {JsonDocument(n, gates) :
        n \in 0 .. MaxQubits,
        gates \in UNION {[1 .. k -> JsonGates] : k \in 0 .. MaxDepth}}

Junk == [form |-> "junk", index |-> 0]

\* lines a QASM document can hold
QasmLines ==
    {QSkip, QReg(0), QReg(1), QReg(MaxQubits),
     QGate("x", <<Q(0)>>), QGate("s", <<Q(MaxQubits - 1)>>), QGate("h", <<Q(MaxQubits)>>),
     QGate("z", <<Bare(0)>>), QGate("y", <<Bare(MaxQubits)>>), QGate("h", <<Junk>>),
     QGate("x", <<Q(0), Q(1)>>), QGate("cx", <<Q(0), Q(1)>>), QGate("cx", <<Q(0)>>),
     QGate("cz", <<Q(0), Q(0)>>), QGate("swap", <<Bare(1), Q(0)>>),
     QGate("id", <<Q(0)>>)}

QasmDocuments ==
    {[format |-> "qasm", lines |-> lines] :
        lines \in UNION {[1 .. k -> QasmLines] : k \in 0 .. MaxLines}}

IoInit ==
    /\ \/ /\ pc = "io_build"
          /\ circuit \in {Circuit_new(n) : n \in 0 .. MaxQubits}
          /\ document = NoDocument
       \/ /\ pc = "import"
          /\ circuit = Circuit_new(0)
          /\ document \in JsonDocuments \cup QasmDocuments
    /\ add_result = "none"
    /\ error_pattern = PauliString_new(0)
    /\ timeline = <<>>
    /\ current_time = 0
    /\ call = NoCall
    /\ ret = "unit"
    /\ panicked = FALSE
    /\ injections = 0
    /\ scenario = NoScenario
    /\ lhs = PauliString_new(0)
    /\ rhs = PauliString_new(0)
    /\ product = NoProduct
    /\ program = <<>>
    /\ trace = <<>>
    /\ phases = <<PlusOne, PlusOne, PlusOne>>
    /\ phase_out = NoPhaseOut
    /\ third = PauliString_new(0)
    /\ text = NoText
    /\ parsed = NoParsed
    /\ imported = NoImported

IoAddGate(gate) ==
    /\ pc = "io_build"
    /\ depth(circuit) < MaxDepth
    /\ LET r == add_gate(circuit, gate)
       IN  /\ circuit' = r.circuit
           /\ add_result' = r.result
    /\ UNCHANGED <<pc, simVars, call, ret, panicked, injections, scenario, pauliVars,
                   ruleVars, phaseVars, otherVars>>

\* import_qasm(&export_qasm(&circuit))
RoundTripQasm ==
    /\ pc = "io_build"
    /\ pc' = "roundtrip"
    /\ document' = [format |-> "qasm", lines |-> export_qasm(circuit)]
    /\ imported' = import_qasm(export_qasm(circuit))
    /\ UNCHANGED <<circuit, add_result, simVars, call, ret, panicked, injections,
                   scenario, pauliVars, ruleVars, phaseVars, third, text, parsed>>

ImportJson ==
    /\ pc = "import"
    /\ document.format = "json"
    /\ pc' = "imported"
    /\ imported' = import_json(document)
    /\ UNCHANGED <<circuit, add_result, simVars, call, ret, panicked, injections,
                   scenario, pauliVars, ruleVars, phaseVars, third, text, parsed,
                   document>>

ImportQasm ==
    /\ pc = "import"
    /\ document.format = "qasm"
    /\ pc' = "imported"
    /\ imported' = import_qasm(document.lines)
    /\ UNCHANGED <<circuit, add_result, simVars, call, ret, panicked, injections,
                   scenario, pauliVars, ruleVars, phaseVars, third, text, parsed,
                   document>>

IoNext ==
    \/ \E gate \in IoGateInputs : IoAddGate(gate)
    \/ RoundTripQasm
    \/ ImportJson
    \/ ImportQasm

IoSpec == IoInit /\ [][IoNext]_vars

-----------------------------------------------------------------------------
(* Conjugation rules: a PauliString and a short program of gates are drawn, *)
(* and the gates are applied to it one after the other.  A panic ends the   *)
(* run.                                                                     *)

\* the gates offered on a pattern of n qubits: every single-qubit gate and
\* every two-qubit gate on the operands 0 .. n, where n is out of range
RuleGates(n) ==
    {Single(q, g) : q \in 0 .. n, g \in SingleGate}
        \cup UNION {{CNOT(a, b), CZ(a, b), SWAP(a, b)} : a \in 0 .. n, b \in 0 .. n}

Repeat(gate, k) == [i \in 1 .. k |-> gate]

\* one gate applied 1 .. MaxRepeat times, or two gates on the same operands
Programs(n) ==
    {Repeat(g, k) : g \in RuleGates(n), k \in 1 .. MaxRepeat}
        \cup {<<pair[1], pair[2]>> :
                  pair \in {gh \in RuleGates(n) \X RuleGates(n) :
                               Gate_qubits(gh[1]) = Gate_qubits(gh[2])}}

RuleInit ==
    /\ pc = "rule"
    /\ circuit = Circuit_new(0)
    /\ add_result = "none"
    /\ error_pattern = PauliString_new(0)
    /\ timeline = <<>>
    /\ current_time = 0
    /\ call = NoCall
    /\ ret = "unit"
    /\ panicked = FALSE
    /\ injections = 0
    /\ scenario = NoScenario
    /\ \E n \in 0 .. MaxPauliQubits :
           /\ lhs \in PauliStrings(n)
           /\ program \in Programs(n)
    /\ rhs = PauliString_new(0)
    /\ product = NoProduct
    /\ trace = <<>>
    /\ phases = <<PlusOne, PlusOne, PlusOne>>
    /\ phase_out = NoPhaseOut
    /\ third = PauliString_new(0)
    /\ text = NoText
    /\ parsed = NoParsed
    /\ document = NoDocument
    /\ imported = NoImported

\* the pattern the next gate of program is applied to
Live == IF trace = <<>> THEN lhs ELSE trace[Len(trace)]

ApplyGate ==
    /\ pc = "rule"
    /\ ~panicked
    /\ Len(trace) < Len(program)
    /\ LET out == apply_gate(Live, program[Len(trace) + 1])
       IN  IF out.panic
           THEN /\ panicked' = TRUE
                /\ trace' = trace
           ELSE /\ panicked' = FALSE
                /\ trace' = Append(trace, out.pauli)
    /\ UNCHANGED <<pc, circuit, add_result, simVars, call, ret, injections, scenario,
                   pauliVars, program, phaseVars, otherVars>>

RuleNext ==
    \/ ApplyGate

RuleSpec == RuleInit /\ [][RuleNext]_vars

-----------------------------------------------------------------------------
(* Commutation under conjugation: two PauliStrings of one size and a gate   *)
(* with valid operands are drawn, and the gate is applied to both.          *)

\* the gates with valid operands on a pattern of n qubits: operands below n,
\* and control # target for CNOT and CZ
ValidGates(n) ==
    {g \in RuleGates(n) :
        /\ \A i \in 1 .. Len(Gate_qubits(g)) : Gate_qubits(g)[i] < n
        /\ g.tag \in {"CNOT", "CZ"} => g.control # g.target}

ConjugateInit ==
    /\ pc = "conjugate"
    /\ circuit = Circuit_new(0)
    /\ add_result = "none"
    /\ error_pattern = PauliString_new(0)
    /\ timeline = <<>>
    /\ current_time = 0
    /\ call = NoCall
    /\ ret = "unit"
    /\ panicked = FALSE
    /\ injections = 0
    /\ scenario = NoScenario
    /\ \E n \in 0 .. MaxPauliQubits :
           /\ lhs \in PauliStrings(n)
           /\ rhs \in PauliStrings(n)
           /\ program \in {<<g>> : g \in ValidGates(n)}
    /\ product = NoProduct
    /\ trace = <<>>
    /\ phases = <<PlusOne, PlusOne, PlusOne>>
    /\ phase_out = NoPhaseOut
    /\ third = PauliString_new(0)
    /\ text = NoText
    /\ parsed = NoParsed
    /\ document = NoDocument
    /\ imported = NoImported

\* lhs.commutes_with(rhs), then the gate applied to both, then commutes_with of
\* the two results
ConjugateBoth ==
    /\ pc = "conjugate"
    /\ product.name = "none"
    /\ LET left == apply_gate(lhs, program[1])
           right == apply_gate(rhs, program[1])
       IN  product' = [name |-> "conjugate",
                       panic |-> left.panic \/ right.panic,
                       before |-> commutes_with(lhs, rhs),
                       left |-> left.pauli,
                       right |-> right.pauli,
                       after |-> commutes_with(left.pauli, right.pauli)]
    /\ UNCHANGED <<pc, circuit, add_result, simVars, call, ret, panicked, injections,
                   scenario, lhs, rhs, ruleVars, phaseVars, otherVars>>

ConjugateNext ==
    \/ ConjugateBoth

ConjugateSpec == ConjugateInit /\ [][ConjugateNext]_vars

-----------------------------------------------------------------------------
(* Phase arithmetic: three phases are drawn and multiplied or negated *)

PhaseInit ==
    /\ pc = "phase"
    /\ circuit = Circuit_new(0)
    /\ add_result = "none"
    /\ error_pattern = PauliString_new(0)
    /\ timeline = <<>>
    /\ current_time = 0
    /\ call = NoCall
    /\ ret = "unit"
    /\ panicked = FALSE
    /\ injections = 0
    /\ scenario = NoScenario
    /\ lhs = PauliString_new(0)
    /\ rhs = PauliString_new(0)
    /\ product = NoProduct
    /\ program = <<>>
    /\ trace = <<>>
    /\ phases \in Phases \X Phases \X Phases
    /\ phase_out = NoPhaseOut
    /\ third = PauliString_new(0)
    /\ text = NoText
    /\ parsed = NoParsed
    /\ document = NoDocument
    /\ imported = NoImported

\* the products of a, b and c in both orders and both groupings, and the
\* products of a with PlusOne
PhaseMultiply ==
    /\ pc = "phase"
    /\ phase_out.name = "none"
    /\ LET a == phases[1]
           b == phases[2]
           c == phases[3]
       IN  phase_out' = [name |-> "multiply",
                         ab |-> Phase_multiply(a, b),
                         ba |-> Phase_multiply(b, a),
                         ab_c |-> Phase_multiply(Phase_multiply(a, b), c),
                         a_bc |-> Phase_multiply(a, Phase_multiply(b, c)),
                         a_one |-> Phase_multiply(a, PlusOne),
                         one_a |-> Phase_multiply(PlusOne, a)]
    /\ UNCHANGED <<pc, circuit, add_result, simVars, call, ret, panicked, injections,
                   scenario, pauliVars, ruleVars, phases, otherVars>>

\* a.negate() and a.negate().negate()
PhaseNegate ==
    /\ pc = "phase"
    /\ phase_out.name = "none"
    /\ LET a == phases[1]
       IN  phase_out' = [name |-> "negate",
                         na |-> Phase_negate(a),
                         nna |-> Phase_negate(Phase_negate(a))]
    /\ UNCHANGED <<pc, circuit, add_result, simVars, call, ret, panicked, injections,
                   scenario, pauliVars, ruleVars, phases, otherVars>>

PhaseNext ==
    \/ PhaseMultiply
    \/ PhaseNegate

PhaseSpec == PhaseInit /\ [][PhaseNext]_vars

-----------------------------------------------------------------------------
(* Properties *)

Identity(n) == [x_bits |-> {}, z_bits |-> {}, phase |-> 0, num_qubits |-> n]

\* C1: in every state of a Simulator, 0 <= current_time <= circuit.depth() and
\* timeline.len() == current_time + 1.
C1_CursorAndTimelineLength ==
    pc = "sim" =>
        /\ 0 <= current_time
        /\ current_time <= Len(circuit.gates)
        /\ Len(timeline) = current_time + 1

\* C1 witness: a Simulator that has injected, gone to the end of a circuit of
\* two gates or more and come one step back.
C1_Witness ==
    /\ pc = "sim"
    /\ Len(circuit.gates) >= 2
    /\ current_time = Len(circuit.gates) - 1
    /\ call.name = "step_backward"
    /\ call.changed
    /\ injections > 0

\* C2: n calls of step_forward from time 0 followed by n calls of step_backward
\* leave the live pattern (x bits, z bits, phase) as it was just before the
\* first step, and current_time = 0.
C2_StepUndoRestores ==
    (scenario.active /\ scenario.forward = scenario.backward) =>
        /\ error_pattern.x_bits = scenario.start.x_bits
        /\ error_pattern.z_bits = scenario.start.z_bits
        /\ error_pattern.phase = scenario.start.phase
        /\ current_time = 0

\* C2 witness: two steps forward that changed a pattern injected at time 0,
\* then two steps backward.
C2_Witness ==
    /\ scenario.active
    /\ scenario.forward >= 2
    /\ scenario.backward = scenario.forward
    /\ scenario.moved
    /\ scenario.start # Identity(circuit.num_qubits)

\* C3: step_forward at the end of the circuit returns false and changes
\* nothing; otherwise it applies the gate at index current_time, increments
\* current_time, appends one Snapshot (new time, post-gate pattern, index of the
\* gate applied) and returns true.
C3_StepForwardContract ==
    [][StepForward =>
        IF current_time = Len(circuit.gates)
        THEN /\ ret' = "false"
             /\ UNCHANGED <<error_pattern, timeline, current_time>>
        ELSE LET post == apply_gate(error_pattern, circuit.gates[current_time + 1]).pauli
             IN  /\ ret' = "true"
                 /\ error_pattern' = post
                 /\ current_time' = current_time + 1
                 /\ timeline' = Append(timeline,
                                       [time |-> current_time + 1,
                                        error_pattern |-> post,
                                        gate_applied |-> Some(current_time)])
    ]_vars

\* C4: step_backward at time 0 returns false and changes nothing; otherwise it
\* removes the last Snapshot, decrements current_time, sets the live pattern to
\* the pattern of the new last Snapshot and returns true.
C4_StepBackwardContract ==
    [][StepBackward =>
        IF current_time = 0
        THEN /\ ret' = "false"
             /\ UNCHANGED <<error_pattern, timeline, current_time>>
        ELSE /\ ret' = "true"
             /\ Len(timeline') = Len(timeline) - 1
             /\ \A i \in 1 .. Len(timeline') : timeline'[i] = timeline[i]
             /\ current_time' = current_time - 1
             /\ error_pattern' = timeline[Len(timeline) - 1].error_pattern
             /\ ~panicked'
    ]_vars

\* C4 witness: a step_backward that returned true and brought back a pattern
\* other than the one it left.
C4_Witness ==
    /\ call.name = "step_backward"
    /\ ret = "true"
    /\ scenario.active
    /\ scenario.moved
    /\ scenario.forward = 1
    /\ error_pattern # Identity(circuit.num_qubits)

\* C5: reset leaves exactly the state Simulator::new builds on the same
\* circuit: time 0, the all-identity pattern with phase PlusOne, a timeline of
\* the one Snapshot {0, all-identity, None}; the circuit is unchanged.
C5_ResetIsNew ==
    [][Reset =>
        /\ current_time' = 0
        /\ error_pattern' = Identity(circuit.num_qubits)
        /\ timeline' = <<[time |-> 0,
                          error_pattern |-> Identity(circuit.num_qubits),
                          gate_applied |-> None]>>
        /\ circuit' = circuit
        /\ Sim' = Simulator_new(circuit)
    ]_vars

\* C5 witness: a reset that discarded injected errors and recorded steps.
C5_Witness ==
    /\ call.name = "reset"
    /\ call.changed
    /\ injections > 0
    /\ Len(circuit.gates) >= 2
    /\ current_time = 0
    /\ Len(timeline) = 1

\* C6: run ends with current_time == circuit.depth(), for every circuit
\* add_gate accepted and from every state.
C6_RunDrainsCircuit ==
    call.name = "run" => (~panicked /\ current_time = Len(circuit.gates))

\* C7: inject_error(q, p) with q < num_qubits sets the component of qubit q to
\* p and the pattern of the last Snapshot to the live pattern; the other
\* qubits' components, the phase, current_time, the timeline's length, the last
\* entry's time and gate_applied, and every other entry are unchanged.
C7_InjectErrorFrame ==
    [][(call'.name = "inject_error" /\ InjectError(call'.args[1], call'.args[2])
            /\ call'.args[1] < circuit.num_qubits) =>
        LET q == call'.args[1]
            p == call'.args[2]
        IN  /\ (q \in error_pattern'.x_bits) = (p \in {"X", "Y"})
            /\ (q \in error_pattern'.z_bits) = (p \in {"Z", "Y"})
            /\ timeline'[Len(timeline')].error_pattern = error_pattern'
            /\ error_pattern'.x_bits \ {q} = error_pattern.x_bits \ {q}
            /\ error_pattern'.z_bits \ {q} = error_pattern.z_bits \ {q}
            /\ error_pattern'.phase = error_pattern.phase
            /\ error_pattern'.num_qubits = error_pattern.num_qubits
            /\ current_time' = current_time
            /\ Len(timeline') = Len(timeline)
            /\ timeline'[Len(timeline')].time = timeline[Len(timeline)].time
            /\ timeline'[Len(timeline')].gate_applied = timeline[Len(timeline)].gate_applied
            /\ \A i \in 1 .. (Len(timeline) - 1) : timeline'[i] = timeline[i]
            /\ ~panicked'
    ]_vars

\* C7 witness: an injection after a step, on a pattern that then holds errors
\* on two qubits.
C7_Witness ==
    /\ call.name = "inject_error"
    /\ call.changed
    /\ ~panicked
    /\ current_time >= 1
    /\ error_pattern.phase # PlusOne
    /\ \E a, b \in 0 .. (circuit.num_qubits - 1) :
           /\ a # b
           /\ get_pauli(error_pattern, a) # "I"
           /\ get_pauli(error_pattern, b) # "I"

\* C8: add_gate returns an error and leaves the gate list unchanged when a
\* qubit index of the gate is >= num_qubits, and otherwise appends the gate and
\* returns Ok; so every gate of a circuit references only indices < num_qubits.
C8_AddGateValidates ==
    /\ [][\A gate \in GateInputs :
            AddGate(gate) =>
                IF \E i \in DOMAIN Gate_qubits(gate) :
                       Gate_qubits(gate)[i] >= circuit.num_qubits
                THEN add_result' = "Err" /\ circuit' = circuit
                ELSE /\ add_result' = "Ok"
                     /\ circuit'.gates = circuit.gates \o <<gate>>
                     /\ circuit'.num_qubits = circuit.num_qubits
       ]_vars
    /\ [](\A k \in DOMAIN circuit.gates :
             \A i \in DOMAIN Gate_qubits(circuit.gates[k]) :
                 Gate_qubits(circuit.gates[k])[i] < circuit.num_qubits)

\* C8 witness: a gate rejected by a circuit that already holds an accepted gate.
C8_Witness ==
    /\ pc = "build"
    /\ add_result = "Err"
    /\ Len(circuit.gates) >= 1

\* C9: no step_forward or run on a circuit built by add_gate reaches a panic of
\* the propagation rules.
C9_NoPanicInPropagation ==
    call.name \in {"step_forward", "run"} => ~panicked

-----------------------------------------------------------------------------
(* Properties of the PauliString algebra *)

OneQubit(pauli) ==
    [x_bits |-> IF pauli \in {"X", "Y"} THEN {0} ELSE {},
     z_bits |-> IF pauli \in {"Z", "Y"} THEN {0} ELSE {},
     phase |-> 0, num_qubits |-> 1]

\* C10: on operands of equal num_qubits multiply returns x = x1 XOR x2,
\* z = z1 XOR z2 and phase = phase1 * phase2 * i^w, where
\* w = (popcount(x1 AND z2) - popcount(z1 AND x2)) mod 4 in [0,4) and self is
\* the left operand; so X*Z = (Y,+i), Z*X = (Y,-i), X*X = Z*Z = Y*Y = (I,+1).
C10_MultiplyLaw ==
    (product.name = "multiply" /\ lhs.num_qubits = rhs.num_qubits) =>
        LET w == (Cardinality(lhs.x_bits \cap rhs.z_bits)
                   - Cardinality(lhs.z_bits \cap rhs.x_bits)) % 4
        IN  /\ ~product.panic
            /\ w \in 0 .. 3
            /\ product.value.x_bits =
                   {q \in AllBits : (q \in lhs.x_bits) # (q \in rhs.x_bits)}
            /\ product.value.z_bits =
                   {q \in AllBits : (q \in lhs.z_bits) # (q \in rhs.z_bits)}
            /\ product.value.phase = (lhs.phase + rhs.phase + w) % 4
            /\ product.value.num_qubits = lhs.num_qubits
            /\ (lhs = OneQubit("X") /\ rhs = OneQubit("Z")) =>
                   (get_pauli(product.value, 0) = "Y" /\ product.value.phase = 1)
            /\ (lhs = OneQubit("Z") /\ rhs = OneQubit("X")) =>
                   (get_pauli(product.value, 0) = "Y" /\ product.value.phase = 3)
            /\ (lhs = rhs /\ lhs \in {OneQubit("X"), OneQubit("Y"), OneQubit("Z")}) =>
                   (get_pauli(product.value, 0) = "I" /\ product.value.phase = 0)

\* C10 witness: a product of two-qubit operands whose exponent
\* popcount(x1 AND z2) - popcount(z1 AND x2) is negative before it is taken
\* into [0,4).
C10_Witness ==
    /\ product.name = "multiply"
    /\ ~product.panic
    /\ lhs.num_qubits = 2
    /\ Cardinality(lhs.x_bits \cap rhs.z_bits) = 0
    /\ Cardinality(lhs.z_bits \cap rhs.x_bits) = 1
    /\ lhs.phase = 1
    /\ product.value.phase = (lhs.phase + rhs.phase + 3) % 4

\* C11 as stated: multiplying two PauliStrings of differing qubit counts is
\* reported as an error value, not a fatal failure, and gives no result operator.
C11_MismatchIsErrorValue ==
    (product.name = "multiply" /\ lhs.num_qubits # rhs.num_qubits) =>
        /\ ~product.panic
        /\ "value" \notin DOMAIN product

\* C11, amended: multiplying two PauliStrings of differing qubit counts is a
\* fatal failure (panic) and gives no result operator; with equal qubit counts
\* multiply does not fail.
C11_MismatchPanics ==
    product.name = "multiply" =>
        /\ product.panic = (lhs.num_qubits # rhs.num_qubits)
        /\ product.panic => "value" \notin DOMAIN product

\* C11 witness: a multiply of a one-qubit operand by a two-qubit operand, both
\* other than the identity, that panicked.
C11_Witness ==
    /\ product.name = "multiply"
    /\ product.panic
    /\ lhs.num_qubits = 1
    /\ rhs.num_qubits = 2
    /\ lhs.x_bits # {}
    /\ rhs.z_bits # {}

\* C12: commutes_with is true exactly when the operands have equal num_qubits
\* and popcount((x1 AND z2) XOR (z1 AND x2)) is even; it is false, without
\* failing, when the sizes differ; it does not depend on the phases; and
\* a.commutes_with(b) = b.commutes_with(a).
C12_CommutesWithLaw ==
    product.name = "commutes_with" =>
        LET odd == {q \in AllBits : (q \in lhs.x_bits /\ q \in rhs.z_bits)
                                      # (q \in lhs.z_bits /\ q \in rhs.x_bits)}
        IN  /\ ~product.panic
            /\ product.value =
                   (lhs.num_qubits = rhs.num_qubits /\ Cardinality(odd) % 2 = 0)
            /\ (lhs.num_qubits # rhs.num_qubits) => (product.value = FALSE)
            /\ \A p1, p2 \in Phases :
                   commutes_with([lhs EXCEPT !.phase = p1], [rhs EXCEPT !.phase = p2])
                       = product.value
            /\ product.reverse = product.value

\* C12 witness: two-qubit operands of different phases that anticommute, where
\* x1 AND z2 is empty and z1 AND x2 is not.
C12_Witness ==
    /\ product.name = "commutes_with"
    /\ lhs.num_qubits = 2
    /\ rhs.num_qubits = 2
    /\ lhs.phase # rhs.phase
    /\ lhs.x_bits \cap rhs.z_bits = {}
    /\ Cardinality(lhs.z_bits \cap rhs.x_bits) = 1
    /\ product.value = FALSE

\* C13: on the four phases encoded 0..3, multiply(a, b) is the phase of
\* exponent (a + b) mod 4 and negate(a) the phase of exponent (a + 2) mod 4,
\* both always one of the four phases; multiply is commutative and associative
\* with identity PlusOne, and negate(negate(a)) = a.
C13_PhaseArithmetic ==
    LET a == phases[1]
        b == phases[2]
    IN  /\ phase_out.name = "multiply" =>
               /\ phase_out.ab \in Phases
               /\ phase_out.ab = (a + b) % 4
               /\ phase_out.ab = phase_out.ba
               /\ phase_out.ab_c = phase_out.a_bc
               /\ phase_out.a_one = a
               /\ phase_out.one_a = a
        /\ phase_out.name = "negate" =>
               /\ phase_out.na \in Phases
               /\ phase_out.na = (a + 2) % 4
               /\ phase_out.nna = a

\* C13 witness: a product whose exponent a + b passes 4 (MinusI times
\* MinusOne), with a third phase other than PlusOne.
C13_Witness ==
    /\ phase_out.name = "multiply"
    /\ phases = <<MinusI, MinusOne, PlusI>>
    /\ phase_out.ab = PlusI
    /\ phase_out.ab_c = MinusOne

\* the pattern gate k of program was applied to, and the pattern it left
Before(k) == IF k = 1 THEN lhs ELSE trace[k - 1]
After(k) == trace[k]

\* the phase p multiplied by -1
Negated(p) == (p + 2) % 4

\* C14: I, X, Y, Z, H on qubit q of any PauliString with any phase: I changes
\* nothing; X, Y, Z leave all bits and multiply the phase by -1 iff old z_q = 1,
\* exactly one of old x_q and z_q is 1, old x_q = 1; H exchanges x_q and z_q and
\* multiplies the phase by -1 iff old x_q = old z_q = 1; the bits of the other
\* qubits are unchanged.
C14_PauliAndHadamardRules ==
    \A k \in 1 .. Len(trace) :
        LET g == program[k]
            b == Before(k)
            a == After(k)
        IN  (g.tag = "Single" /\ g.gate \in {"I", "X", "Y", "Z", "H"}) =>
                LET q == g.qubit
                    x == q \in b.x_bits
                    z == q \in b.z_bits
                    flip == CASE g.gate = "I" -> FALSE
                              [] g.gate = "X" -> z
                              [] g.gate = "Y" -> (x # z)
                              [] g.gate = "Z" -> x
                              [] g.gate = "H" -> (x /\ z)
                IN  /\ a.num_qubits = b.num_qubits
                    /\ a.x_bits \ {q} = b.x_bits \ {q}
                    /\ a.z_bits \ {q} = b.z_bits \ {q}
                    /\ (q \in a.x_bits) = (IF g.gate = "H" THEN z ELSE x)
                    /\ (q \in a.z_bits) = (IF g.gate = "H" THEN x ELSE z)
                    /\ a.phase = (IF flip THEN Negated(b.phase) ELSE b.phase)

\* C14 witness: H on qubit 1 of X (x) Y with phase PlusI, which leaves X (x) Y with
\* phase MinusI.
C14_Witness ==
    /\ Len(trace) >= 1
    /\ program[1] = Single(1, "H")
    /\ lhs = [x_bits |-> {0, 1}, z_bits |-> {1}, phase |-> PlusI, num_qubits |-> 2]
    /\ trace[1] = [lhs EXCEPT !.phase = MinusI]

\* what an application of S or Sdg to qubit q leaves apart from the phase:
\* z_q toggled when x_q = 1, every other bit and num_qubits as they were
TogglesZ(b, a, q) ==
    /\ a.num_qubits = b.num_qubits
    /\ a.x_bits = b.x_bits
    /\ a.z_bits \ {q} = b.z_bits \ {q}
    /\ (q \in a.z_bits) = ((q \in b.z_bits) # (q \in b.x_bits))

\* C15 as stated: for every (x, z) and every starting phase S, when x = 1,
\* toggles z and multiplies the phase by +i if old z = 0 and by -i if old
\* z = 1; when x = 0 it changes nothing.
C15_SIsClosedForm ==
    \A k \in 1 .. Len(trace) :
        LET g == program[k]
            b == Before(k)
            a == After(k)
        IN  (g.tag = "Single" /\ g.gate = "S") =>
                LET x == g.qubit \in b.x_bits
                    z == g.qubit \in b.z_bits
                IN  /\ TogglesZ(b, a, g.qubit)
                    /\ a.phase = (IF ~x THEN b.phase
                                  ELSE IF ~z THEN (b.phase + 1) % 4
                                  ELSE (b.phase + 3) % 4)

\* C15, amended: S, when x = 1, toggles z; if old z = 0 it multiplies the phase
\* by +i, as the closed form does; if old z = 1 it sets the phase to PlusOne
\* when the running phase is MinusI and otherwise multiplies it by -1, which is
\* never the closed form's -i; when x = 0 it changes nothing.
C15_SRule ==
    \A k \in 1 .. Len(trace) :
        LET g == program[k]
            b == Before(k)
            a == After(k)
        IN  (g.tag = "Single" /\ g.gate = "S") =>
                LET x == g.qubit \in b.x_bits
                    z == g.qubit \in b.z_bits
                IN  /\ TogglesZ(b, a, g.qubit)
                    /\ a.phase = (IF ~x THEN b.phase
                                  ELSE IF ~z THEN (b.phase + 1) % 4
                                  ELSE IF b.phase = MinusI THEN PlusOne
                                  ELSE Negated(b.phase))
                    /\ (x /\ z) => a.phase # (b.phase + 3) % 4

\* C15 witness: S on single-qubit Y with phase PlusOne, which leaves X with
\* phase MinusOne.
C15_Witness ==
    /\ Len(trace) >= 1
    /\ program[1] = Single(0, "S")
    /\ lhs = OneQubit("Y")
    /\ trace[1] = [OneQubit("X") EXCEPT !.phase = MinusOne]

\* C16 as stated: for every starting phase Sdg, when x = 1, toggles z; if old
\* z = 0 it multiplies the phase by -i; if old z = 1 it sets the phase to
\* PlusOne when the running phase is PlusI and otherwise multiplies it by -1;
\* when x = 0 it changes nothing.
C16_SdgMirrorsS ==
    \A k \in 1 .. Len(trace) :
        LET g == program[k]
            b == Before(k)
            a == After(k)
        IN  (g.tag = "Single" /\ g.gate = "Sdg") =>
                LET x == g.qubit \in b.x_bits
                    z == g.qubit \in b.z_bits
                IN  /\ TogglesZ(b, a, g.qubit)
                    /\ a.phase = (IF ~x THEN b.phase
                                  ELSE IF ~z THEN (b.phase + 3) % 4
                                  ELSE IF b.phase = PlusI THEN PlusOne
                                  ELSE Negated(b.phase))

\* C16, amended: for every starting phase Sdg, when x = 1, toggles z; if old
\* z = 0 it multiplies the phase by -i; if old z = 1 it sets the phase to
\* PlusOne when the running phase is PlusI and otherwise leaves the phase as it
\* is; when x = 0 it changes nothing.
C16_SdgRule ==
    \A k \in 1 .. Len(trace) :
        LET g == program[k]
            b == Before(k)
            a == After(k)
        IN  (g.tag = "Single" /\ g.gate = "Sdg") =>
                LET x == g.qubit \in b.x_bits
                    z == g.qubit \in b.z_bits
                IN  /\ TogglesZ(b, a, g.qubit)
                    /\ a.phase = (IF ~x THEN b.phase
                                  ELSE IF ~z THEN (b.phase + 3) % 4
                                  ELSE IF b.phase = PlusI THEN PlusOne
                                  ELSE b.phase)

\* C16 witness: Sdg on single-qubit Y with phase PlusOne, which leaves X with
\* phase PlusOne.
C16_Witness ==
    /\ Len(trace) >= 1
    /\ program[1] = Single(0, "Sdg")
    /\ lhs = OneQubit("Y")
    /\ trace[1] = OneQubit("X")

\* C17: for every single-qubit component I, X, Y, Z and every starting phase,
\* S then Sdg, or Sdg then S, on the same qubit returns the original component
\* and the original phase.
C17_SThenSdgIsIdentity ==
    (/\ Len(program) = 2
     /\ Len(trace) = 2
     /\ program[1].tag = "Single"
     /\ <<program[1].gate, program[2].gate>> \in {<<"S", "Sdg">>, <<"Sdg", "S">>})
        => trace[2] = lhs

\* C18: from single-qubit X with phase PlusOne, four successive S leave Y with
\* phase PlusI, X with phase MinusI, Y with phase PlusOne, and X with phase
\* PlusOne.
C18_FourSFromX ==
    (/\ lhs = OneQubit("X")
     /\ Len(program) = 4
     /\ \A k \in 1 .. 4 : program[k] = Single(0, "S"))
        => /\ Len(trace) >= 1 => trace[1] = [OneQubit("Y") EXCEPT !.phase = PlusI]
           /\ Len(trace) >= 2 => trace[2] = [OneQubit("X") EXCEPT !.phase = MinusI]
           /\ Len(trace) >= 3 => trace[3] = [OneQubit("Y") EXCEPT !.phase = PlusOne]
           /\ Len(trace) >= 4 => trace[4] = [OneQubit("X") EXCEPT !.phase = PlusOne]

\* C19: H twice on the same qubit, SWAP(q1, q2) twice and CZ(c, t) twice return
\* the original x bits, z bits and phase, for every starting phase.
C19_Involutions ==
    (/\ Len(program) = 2
     /\ Len(trace) = 2
     /\ program[1] = program[2]
     /\ \/ program[1].tag \in {"SWAP", "CZ"}
        \/ program[1].tag = "Single" /\ program[1].gate = "H")
        => /\ trace[2].x_bits = lhs.x_bits
           /\ trace[2].z_bits = lhs.z_bits
           /\ trace[2].phase = lhs.phase
           /\ trace[2] = lhs

\* C19 witness: CZ(0, 1) twice on X (x) Y with phase PlusI, whose first
\* application changed both the z bits and the phase.
C19_Witness ==
    /\ Len(trace) = 2
    /\ program = <<CZ(0, 1), CZ(0, 1)>>
    /\ lhs = [x_bits |-> {0, 1}, z_bits |-> {1}, phase |-> PlusI, num_qubits |-> 2]
    /\ trace[1] = [x_bits |-> {0, 1}, z_bits |-> {0}, phase |-> MinusI, num_qubits |-> 2]
    /\ trace[2] = lhs

\* what CNOT(control, target) leaves apart from the target's x bit: z_c XOR z_t
\* on the control, x_c, z_t and the bits of the other qubits as they were, and
\* the phase multiplied by -1 iff old x_c = 1 and old z_t = 1
CnotFrame(b, a, c, t) ==
    /\ a.num_qubits = b.num_qubits
    /\ a.x_bits \ {t} = b.x_bits \ {t}
    /\ a.z_bits \ {c} = b.z_bits \ {c}
    /\ (c \in a.z_bits) = ((c \in b.z_bits) # (t \in b.z_bits))
    /\ a.phase = (IF c \in b.x_bits /\ t \in b.z_bits THEN Negated(b.phase) ELSE b.phase)

\* C20 as stated: CNOT(control, target) with control # target yields
\* x_t' = x_t XOR x_c and z_c' = z_c XOR z_t, leaves x_c, z_t and the bits of the
\* other qubits, and multiplies the phase by -1 iff old x_c = 1 and old z_t = 1.
C20_CnotXors ==
    \A k \in 1 .. Len(trace) :
        LET g == program[k]
            b == Before(k)
            a == After(k)
        IN  g.tag = "CNOT" =>
                /\ g.control # g.target
                /\ CnotFrame(b, a, g.control, g.target)
                /\ (g.target \in a.x_bits)
                       = ((g.target \in b.x_bits) # (g.control \in b.x_bits))

\* C20, amended: CNOT(control, target) with control # target yields
\* x_t' = x_t OR x_c (an X already on the target stays) and z_c' = z_c XOR z_t,
\* leaves x_c, z_t and the bits of the other qubits, and multiplies the phase
\* by -1 iff old x_c = 1 and old z_t = 1.
C20_CnotRule ==
    \A k \in 1 .. Len(trace) :
        LET g == program[k]
            b == Before(k)
            a == After(k)
        IN  g.tag = "CNOT" =>
                /\ g.control # g.target
                /\ CnotFrame(b, a, g.control, g.target)
                /\ (g.target \in a.x_bits)
                       = ((g.target \in b.x_bits) \/ (g.control \in b.x_bits))

\* C20 witness: CNOT(0, 1) on X (x) Y, where x_c = x_t = 1 and z_t = 1: the bits
\* stay except z_c, and the phase is negated.
C20_Witness ==
    /\ Len(trace) >= 1
    /\ program[1] = CNOT(0, 1)
    /\ lhs = [x_bits |-> {0, 1}, z_bits |-> {1}, phase |-> PlusOne, num_qubits |-> 2]
    /\ trace[1] = [x_bits |-> {0, 1}, z_bits |-> {0, 1}, phase |-> MinusOne, num_qubits |-> 2]

\* the two-qubit pattern with component p0 on qubit 0, p1 on qubit 1 and the
\* given phase
TwoQubit(p0, p1, phase) ==
    [x_bits |-> (IF p0 \in {"X", "Y"} THEN {0} ELSE {})
                    \cup (IF p1 \in {"X", "Y"} THEN {1} ELSE {}),
     z_bits |-> (IF p0 \in {"Z", "Y"} THEN {0} ELSE {})
                    \cup (IF p1 \in {"Z", "Y"} THEN {1} ELSE {}),
     phase |-> phase, num_qubits |-> 2]

\* C21: CNOT(0,1) on two-qubit patterns with phase +1 takes X(x)I to X(x)X with
\* phase +1, I(x)Z to Z(x)Z with phase +1, X(x)Z to Y(x)Y with phase -1, and
\* leaves X(x)X as it is.
C21_CnotIdentities ==
    (Len(trace) >= 1 /\ program[1] = CNOT(0, 1)) =>
        /\ lhs = TwoQubit("X", "I", PlusOne) => trace[1] = TwoQubit("X", "X", PlusOne)
        /\ lhs = TwoQubit("I", "Z", PlusOne) => trace[1] = TwoQubit("Z", "Z", PlusOne)
        /\ lhs = TwoQubit("X", "Z", PlusOne) => trace[1] = TwoQubit("Y", "Y", MinusOne)
        /\ lhs = TwoQubit("X", "X", PlusOne) => trace[1] = TwoQubit("X", "X", PlusOne)

\* C21 witness: CNOT(0,1) applied to X(x)Z with phase +1, leaving Y(x)Y with
\* phase -1.
C21_Witness ==
    /\ Len(trace) >= 1
    /\ program[1] = CNOT(0, 1)
    /\ lhs = TwoQubit("X", "Z", PlusOne)
    /\ get_pauli(trace[1], 0) = "Y"
    /\ get_pauli(trace[1], 1) = "Y"
    /\ trace[1].phase = MinusOne

\* C22: CZ(control, target) with control # target yields z_c' = z_c XOR x_t and
\* z_t' = z_t XOR x_c from the pre-gate x bits, leaves all x bits and the z
\* bits of the other qubits, and multiplies the phase by -1 iff x_c = 1 and
\* x_t = 1.
C22_CzRule ==
    \A k \in 1 .. Len(trace) :
        LET g == program[k]
            b == Before(k)
            a == After(k)
        IN  g.tag = "CZ" =>
                LET c == g.control
                    t == g.target
                IN  /\ c # t
                    /\ a.num_qubits = b.num_qubits
                    /\ a.x_bits = b.x_bits
                    /\ a.z_bits \ {c, t} = b.z_bits \ {c, t}
                    /\ (c \in a.z_bits) = ((c \in b.z_bits) # (t \in b.x_bits))
                    /\ (t \in a.z_bits) = ((t \in b.z_bits) # (c \in b.x_bits))
                    /\ a.phase = (IF c \in b.x_bits /\ t \in b.x_bits
                                  THEN Negated(b.phase) ELSE b.phase)

\* C22 witness: CZ(1, 0) on Y(x)X with phase MinusI: both z bits toggle and the
\* phase becomes PlusI.
C22_Witness ==
    /\ Len(trace) >= 1
    /\ program[1] = CZ(1, 0)
    /\ lhs = TwoQubit("Y", "X", MinusI)
    /\ trace[1] = TwoQubit("X", "Y", PlusI)

\* no bit of the pattern at an index >= num_qubits is 1
BitsBelowNumQubits(pauli) ==
    /\ \A q \in pauli.x_bits : q < pauli.num_qubits
    /\ \A q \in pauli.z_bits : q < pauli.num_qubits

\* C23: in the live pattern and in every timeline entry of a Simulator, after
\* any sequence of inject_error, step_forward, step_backward, reset and run on a
\* circuit accepted by add_gate, every x and z bit at an index >= num_qubits is
\* zero; so it is in what from_str returns and in the product multiply returns
\* on operands that have the property.
C23_NoBitsBeyondNumQubits ==
    /\ pc = "sim" =>
           /\ BitsBelowNumQubits(error_pattern)
           /\ \A i \in 1 .. Len(timeline) : BitsBelowNumQubits(timeline[i].error_pattern)
    /\ parsed.result = "Ok" =>
           /\ BitsBelowNumQubits(parsed.value)
           /\ parsed.value.num_qubits = text.num_qubits
    /\ (/\ product.name = "multiply"
        /\ ~product.panic
        /\ BitsBelowNumQubits(lhs)
        /\ BitsBelowNumQubits(rhs)) => BitsBelowNumQubits(product.value)

\* C23 witness: a Simulator whose pattern, after an injection and a
\* step_forward, has a component on its last qubit, recorded in the timeline.
C23_Witness ==
    /\ pc = "sim"
    /\ call.name = "step_forward"
    /\ ret = "true"
    /\ error_pattern.num_qubits >= 2
    /\ (error_pattern.num_qubits - 1) \in error_pattern.x_bits
    /\ Len(timeline) >= 2
    /\ timeline[Len(timeline)].error_pattern = error_pattern

\* C24: for any two PauliStrings P and Q of equal size and any gate with valid
\* operands, P.commutes_with(Q) before the gate is applied to both equals
\* commutes_with of the two results.
C24_ConjugationKeepsCommutation ==
    product.name = "conjugate" =>
        /\ ~product.panic
        /\ product.after = product.before

\* the inverse of a gate: S and Sdg are each other's, every other gate its own
Inverse(gate) ==
    IF gate.tag = "Single" /\ gate.gate = "S" THEN Single(gate.qubit, "Sdg")
    ELSE IF gate.tag = "Single" /\ gate.gate = "Sdg" THEN Single(gate.qubit, "S")
    ELSE gate

\* C25: for every gate g and every PauliString P, applying g and then the
\* inverse of g restores the bits and the phase of P, so that applying the
\* inverse of the last gate to the live pattern gives the pattern step_backward
\* restores (the one held before the gate).
C25_InverseGateUndoes ==
    (/\ Len(program) = 2
     /\ Len(trace) = 2
     /\ program[2] = Inverse(program[1]))
        => /\ trace[2].x_bits = lhs.x_bits
           /\ trace[2].z_bits = lhs.z_bits
           /\ trace[2].phase = lhs.phase

\* the qubits of every gate of a circuit are below its num_qubits
GatesInRange(c) ==
    \A i \in 1 .. Len(c.gates) :
        \A k \in 1 .. Len(Gate_qubits(c.gates[i])) : Gate_qubits(c.gates[i])[k] < c.num_qubits

\* C26: whatever import_json or import_qasm returns is an error or a Circuit
\* in which the qubits of every gate are below num_qubits.
C26_ImportersValidate ==
    (pc = "imported" /\ imported.result = "Ok") => GatesInRange(imported.value)

\* the gates of a circuit that export_qasm writes a statement for
NotIdentityGates(c) ==
    SelectSeq(c.gates, LAMBDA g : ~(g.tag = "Single" /\ g.gate = "I"))

\* C27 as stated: a circuit built through add_gate, exported to QASM and
\* imported again, comes back with the same num_qubits and as many gates.
C27_RoundTripKeepsGateCount ==
    pc = "roundtrip" =>
        /\ imported.result = "Ok"
        /\ imported.value.num_qubits = circuit.num_qubits
        /\ Len(imported.value.gates) = Len(circuit.gates)

\* C27: a circuit of at least one qubit built through add_gate, exported to
\* QASM and imported again, comes back with the same num_qubits and with its
\* gates other than I, in their order; the export of a circuit of no qubits is
\* rejected by import_qasm.
C27_RoundTripDropsIdentity ==
    pc = "roundtrip" =>
        IF circuit.num_qubits = 0
        THEN imported = Err
        ELSE imported = Ok([num_qubits |-> circuit.num_qubits,
                            gates |-> NotIdentityGates(circuit)])

C27_Witness ==
    /\ pc = "roundtrip"
    /\ imported.result = "Ok"
    /\ Len(circuit.gates) = 2
    /\ Len(imported.value.gates) = 1
    /\ imported.value.gates[1].tag = "CNOT"
\* s is an initial segment of t
IsPrefix(s, t) == Len(s) <= Len(t) /\ s = SubSeq(t, 1, Len(s))

\* C28: no operation changes a timeline entry at an index below current_time.
\* step_forward and run only append, step_backward only removes from the end,
\* inject_error changes nothing but the pattern of the entry at index
\* current_time, and reset discards the entries and starts the timeline anew.
C28_HistoryNotMutated ==
    [][(pc = "sim" /\ pc' = "sim") =>
          /\ call'.name \in {"step_forward", "run"} => IsPrefix(timeline, timeline')
          /\ call'.name = "step_forward" => Len(timeline') <= Len(timeline) + 1
          /\ call'.name = "step_backward" => IsPrefix(timeline', timeline)
          /\ call'.name = "inject_error" =>
                /\ Len(timeline') = Len(timeline)
                /\ \A i \in 1 .. Len(timeline) :
                       /\ i - 1 < current_time => timeline'[i] = timeline[i]
                       /\ timeline'[i].time = timeline[i].time
                       /\ timeline'[i].gate_applied = timeline[i].gate_applied
          /\ call'.name = "reset" => Len(timeline') = 1]_vars

\* an error was injected after a step forward and changed the last entry,
\* while the entry before it holds another pattern
C28_Witness ==
    /\ pc = "sim" /\ ~panicked
    /\ call.name = "inject_error" /\ call.changed
    /\ current_time >= 1
    /\ Len(timeline) = current_time + 1
    /\ timeline[Len(timeline)].error_pattern # timeline[Len(timeline) - 1].error_pattern
    /\ timeline[Len(timeline)].error_pattern = error_pattern

\* C29: in every state of a Simulator the live pattern is the pattern of the
\* last timeline entry, the entry at index i has time i, the first entry has
\* no gate and the entry at index i >= 1 records gate i - 1.
C29_TimelineShape ==
    (pc = "sim" /\ ~panicked) =>
        /\ Len(timeline) >= 1
        /\ error_pattern = timeline[Len(timeline)].error_pattern
        /\ \A i \in 1 .. Len(timeline) :
               /\ timeline[i].time = i - 1
               /\ timeline[i].gate_applied = IF i = 1 THEN None ELSE Some(i - 2)

C29_Witness ==
    /\ pc = "sim" /\ ~panicked
    /\ Len(timeline) = 2
    /\ call.name = "step_backward" /\ call.changed
    /\ error_pattern # PauliString_new(circuit.num_qubits)
\* C30: multiply is associative: both groupings of a product of three
\* PauliStrings of equal num_qubits agree in x bits, z bits and phase.
C30_MultiplyAssociative ==
    product.name = "multiply_three" => product.left = product.right
====
